---------------------------- MODULE Spec2Model ----------------------------
(***************************************************************************)
(* A model of main.py: the MeCab token adapter (PhraseTokenizer.tokenize), *)
(* the phrase segmenter (split_text_into_phrases), the word-list loader    *)
(* (load_wordlist), the distance ranking (sort_by_distance) and the        *)
(* end-to-end matcher (find_closest_words).                                *)
(*                                                                         *)
(* A Python str is a sequence of characters.  The module is ASCII, so each *)
(* Japanese character is written as one romanised symbol: the two          *)
(* characters of the tag meishi (noun) are <<"mei", "shi">>.  Substring    *)
(* tests and the edit distance work on these characters.                   *)
(***************************************************************************)
EXTENDS Integers, Sequences, FiniteSets, TLC

(***************************************************************************)
(* Bounds of the model.                                                    *)
(***************************************************************************)
MaxTokens == 3
MaxFindTokens == 2
MaxWords == 2
MaxLines == 3
MaxRankWords == 3

(***************************************************************************)
(* Python str and list primitives.                                         *)
(***************************************************************************)
RECURSIVE Concat(_)
\* ''.join(parts): the parts one after another
Concat(parts) == IF parts = <<>> THEN <<>> ELSE Head(parts) \o Concat(Tail(parts))

RECURSIVE Join(_, _)
\* sep.join(parts)
Join(sep, parts) ==
  IF parts = <<>> THEN <<>>
  ELSE IF Len(parts) = 1 THEN parts[1]
  ELSE parts[1] \o sep \o Join(sep, Tail(parts))

\* Python's  sub in s  on two strings: sub occurs in s as a contiguous run
Contains(sub, s) ==
  \E k \in 0..(Len(s) - Len(sub)) : SubSeq(s, k + 1, k + Len(sub)) = sub

RECURSIVE SplitFrom(_, _, _)
\* the pieces of s after a piece cur has been read up to the next separator
SplitFrom(s, sep, cur) ==
  IF s = <<>> THEN <<cur>>
  ELSE IF Head(s) = sep THEN <<cur>> \o SplitFrom(Tail(s), sep, <<>>)
  ELSE SplitFrom(Tail(s), sep, Append(cur, Head(s)))

\* s.split(sep) for a one-character separator
Split(s, sep) == SplitFrom(s, sep, <<>>)

\* the sequences over S of length 0..n
SeqsUpTo(S, n) == UNION {[1..k -> S] : k \in 0..n}

(***************************************************************************)
(* The characters and tags the code compares with.                         *)
(***************************************************************************)
TAB == "TAB"
COMMA == ","
STAR == <<"*">>

Meishi == <<"mei", "shi">>
Doushi == <<"dou", "shi">>
Settoushi == <<"setsu", "tou", "shi">>
Fukushi == <<"fuku", "shi">>
Kandoushi == <<"kan", "dou", "shi">>
Keiyoushi == <<"kei", "you", "shi">>
Keiyoudoushi == <<"kei", "you", "dou", "shi">>
Rentaishi == <<"ren", "tai", "shi">>
Joshi == <<"jo", "shi">>

Setsubi == <<"setsu", "bi">>
Hijiritsu == <<"hi", "ji", "ritsu">>
SahenSetsuzoku == <<"sa", "hen", "setsu", "zoku">>
SahenSuru == <<"sa", "hen", "nakaguro", "su", "ru">>

\* phrase_break_pos_tags
phrase_break_pos_tags ==
  <<Meishi, Doushi, Settoushi, Fukushi, Kandoushi, Keiyoushi, Keiyoudoushi, Rentaishi>>

\* Python's  x in list: some element equals x
InList(x, list) == \E k \in 1..Len(list) : list[k] = x

(***************************************************************************)
(* The external tokenizer.  A text is identified with MeCab's analysis of  *)
(* it: the sequence of its morphemes, each a surface and a feature string. *)
(* Surfaces are non-empty and the text is their concatenation.             *)
(***************************************************************************)
Morph(surface, features) == [surface |-> surface, features |-> features]

\* umi: noun, general
MUmi == Morph(<<"Kumi">>,
  <<Meishi, <<"ichi", "han">>, STAR, STAR, STAR, STAR, <<"Kumi">>, <<"u", "mi">>, <<"u", "mi">>>>)
\* wa: particle, not a boundary tag
MWa == Morph(<<"Hha">>,
  <<Joshi, <<"kakari", "jo", "shi">>, STAR, STAR, STAR, STAR, <<"Hha">>, <<"ha">>, <<"wa">>>>)
\* o: prefix
MO == Morph(<<"Ho">>,
  <<Settoushi, <<"mei", "shi", "setsu", "zoku">>, STAR, STAR, STAR, STAR, <<"Ho">>, <<"o">>, <<"o">>>>)
\* san: noun, suffix
MSan == Morph(<<"Hsa", "Hn">>,
  <<Meishi, Setsubi, <<"jin", "mei">>, STAR, STAR, STAR, <<"Hsa", "Hn">>, <<"sa", "n">>, <<"sa", "n">>>>)
\* benkyou: noun that takes suru
MBenkyou == Morph(<<"Kben", "Kkyou">>,
  <<Meishi, SahenSetsuzoku, STAR, STAR, STAR, STAR, <<"Kben", "Kkyou">>,
    <<"be", "n", "kyo", "u">>, <<"be", "n", "kyo", "-">>>>)
\* suru: verb, independent, conjugated as suru
MSuru == Morph(<<"Hsu", "Hru">>,
  <<Doushi, <<"ji", "ritsu">>, STAR, STAR, SahenSuru, <<"ki", "hon", "kei">>,
    <<"Hsu", "Hru">>, <<"su", "ru">>, <<"su", "ru">>>>)
\* koto: noun, non-independent
MKoto == Morph(<<"Hko", "Hto">>,
  <<Meishi, Hijiritsu, <<"ichi", "han">>, STAR, STAR, STAR, <<"Hko", "Hto">>,
    <<"ko", "to">>, <<"ko", "to">>>>)
\* goran: noun whose detail tag has the non-independent marker inside it
MGoran == Morph(<<"Hgo", "Hra">>,
  <<Meishi, Doushi \o Hijiritsu \o <<"teki">>, STAR, STAR, STAR, STAR, <<"Hgo", "Hra">>,
    <<"go", "ra">>, <<"go", "ra">>>>)
\* an unknown word: seven features, no reading and no pronunciation
MUnknown == Morph(<<"X">>,
  <<Meishi, <<"ko", "yuu", "mei", "shi">>, <<"so", "shiki">>, STAR, STAR, STAR, STAR>>)
\* a verb a dictionary tags with the suru-connection detail
MSahenVerb == Morph(<<"Kai">>,
  <<Doushi, SahenSetsuzoku, STAR, STAR, SahenSuru, <<"ki", "hon", "kei">>,
    <<"Kai">>, <<"a", "i">>, <<"a", "i">>>>)

\* hiroi: adjective, independent
MHiroi == Morph(<<"Khiro", "Hi">>,
  <<Keiyoushi, <<"ji", "ritsu">>, STAR, STAR, <<"kei", "you", "shi", "nakaguro", "dan">>,
    <<"ki", "hon", "kei">>, <<"Khiro", "Hi">>, <<"hi", "ro", "i">>, <<"hi", "ro", "i">>>>)
\* uma: noun, general
MUma == Morph(<<"Kuma">>,
  <<Meishi, <<"ichi", "han">>, STAR, STAR, STAR, STAR, <<"Kuma">>, <<"u", "ma">>, <<"u", "ma">>>>)
\* sora: noun, general
MSora == Morph(<<"Ksora">>,
  <<Meishi, <<"ichi", "han">>, STAR, STAR, STAR, STAR, <<"Ksora">>, <<"so", "ra">>, <<"so", "ra">>>>)

\* the morphemes of the texts that are segmented
Morphemes ==
  {MHiroi, MWa, MO, MSan, MBenkyou, MSuru, MKoto, MGoran, MUnknown, MSahenVerb}
\* the morphemes of the texts that are matched end to end
FindMorphemes == {MUmi, MWa, MUnknown}
\* the lines of a word-list file
LineTexts == {<<>>, <<MUmi>>, <<MUma>>, <<MUnknown, MSora>>, <<MUmi, MWa>>}
\* the phrases a word list is ranked against
TargetTexts == {<<MUmi>>, <<MSora, MWa>>, <<MUnknown>>}

\* one line of MeCab's output: surface, a tab, the features joined by commas
MeCabLine(m) == m.surface \o <<TAB>> \o Join(<<COMMA>>, m.features)

\* self.m.parse(text).splitlines(): one line per morpheme, then the EOS line
MeCabParse(text) == [k \in 1..Len(text) |-> MeCabLine(text[k])] \o <<<<"E", "O", "S">>>>

\* the raw text MeCab was given
RawText(text) == Concat([k \in 1..Len(text) |-> text[k].surface])

(***************************************************************************)
(* PhraseTokenizer.tokenize                                                *)
(***************************************************************************)
\* the token dictionary of one tabbed line
TokenOf(line) ==
  LET parts == Split(line, TAB)
      word_surface == parts[1]
      pos_info == Split(parts[2], COMMA)
  IN [surface_form |-> word_surface,
      pos |-> pos_info[1],
      pos_detail_1 |-> IF Len(pos_info) > 1 THEN pos_info[2] ELSE STAR,
      pos_detail_2 |-> IF Len(pos_info) > 2 THEN pos_info[3] ELSE STAR,
      pos_detail_3 |-> IF Len(pos_info) > 3 THEN pos_info[4] ELSE STAR,
      conjugated_type |-> IF Len(pos_info) > 4 THEN pos_info[5] ELSE STAR,
      conjugated_form |-> IF Len(pos_info) > 5 THEN pos_info[6] ELSE STAR,
      basic_form |-> IF Len(pos_info) > 6 THEN pos_info[7] ELSE word_surface,
      reading |-> IF Len(pos_info) > 7 THEN pos_info[8] ELSE <<>>,
      pronunciation |-> IF Len(pos_info) > 8 THEN pos_info[9] ELSE <<>>]

HasTab(line) == \E k \in 1..Len(line) : line[k] = TAB

tokenize(text) ==
  LET parsed == MeCabParse(text)
      mecab_result == SubSeq(parsed, 1, Len(parsed) - 1)
      tabbed == SelectSeq(mecab_result, HasTab)
  IN [k \in 1..Len(tabbed) |-> TokenOf(tabbed[k])]


(***************************************************************************)
(* The program state.                                                      *)
(***************************************************************************)
VARIABLES
  pc,               \* where the running function is
  text,             \* split_text_into_phrases: the text argument
  consider,         \* consider_non_independent_nouns_as_breaks
  tokens,           \* tokens
  i,                \* the number of tokens the for loop has consumed
  segmented_text,   \* segmented_text
  current_phrase,   \* current_phrase
  previous_token,   \* previous_token: <<>> is None, <<t>> is the token t
  should_break,     \* should_break of the latest iteration
  target_word,      \* sort_by_distance: target_word
  wordlist,         \* the word list (load_wordlist builds it, the others read it)
  distances,        \* sort_by_distance: distances
  sorted_distances, \* sort_by_distance: sorted_distances
  sorted_wordlist,  \* sort_by_distance: sorted_wordlist, the return value
  lines,            \* load_wordlist: lines
  phrases,          \* find_closest_words: phrases
  sorted_words,     \* find_closest_words: sorted_words of the latest iteration
  closest_words,    \* find_closest_words: closest_words
  error             \* the exception that ended the run, "" when none

segVars == <<text, consider, tokens, i, segmented_text, current_phrase,
             previous_token, should_break>>
rankVars == <<target_word, distances, sorted_distances, sorted_wordlist>>
findVars == <<phrases, sorted_words, closest_words, error>>
vars == <<pc, segVars, rankVars, findVars, wordlist, lines>>

EmptyPhrase == [surface |-> <<>>, pronunciation |-> <<>>]

(***************************************************************************)
(* PhraseTokenizer.split_text_into_phrases                                 *)
(***************************************************************************)
\* the value of the flag when the caller omits it
DefaultConsider == TRUE

PosDetail(token) ==
  Join(<<COMMA>>, <<token.pos_detail_1, token.pos_detail_2, token.pos_detail_3>>)

\* the base condition: the token's pos is one of the boundary tags
BaseBreakWithParticles(token) == InList(token.pos, Append(phrase_break_pos_tags, Joshi))

BaseBreak(token) == InList(token.pos, phrase_break_pos_tags)

\* the base condition b0 narrowed by the rules on the token's details and on the
\* previous token (<<>> when None)
Narrowed(token, previous, b0) ==
  LET pos_info == token.pos
      pos_detail == PosDetail(token)
      b1 == b0 /\ ~Contains(Setsubi, pos_detail)
      b2 == b1 /\ ~(pos_info = Doushi /\ Contains(SahenSetsuzoku, pos_detail))
      b3 == b2 /\ ~Contains(Hijiritsu, pos_detail)
  IN IF previous # <<>>
     THEN LET previous_pos_info == previous[1].pos
              previous_pos_detail == PosDetail(previous[1])
              b4 == b3 /\ previous_pos_info # Settoushi
          IN b4 /\ ~(/\ Contains(SahenSetsuzoku, previous_pos_detail)
                     /\ pos_info = Doushi
                     /\ token.conjugated_type = SahenSuru)
     ELSE b3

\* the narrowing applied when the flag is set
ShouldBreakNarrowedWhenSet(token, previous, flag) ==
  IF flag THEN Narrowed(token, previous, BaseBreak(token)) ELSE BaseBreak(token)

\* should_break for a token: the narrowing is applied when the flag is not set
ShouldBreak(token, previous, flag) ==
  IF ~flag THEN Narrowed(token, previous, BaseBreak(token)) ELSE BaseBreak(token)

\* the phrase is emitted even when nothing has been accumulated
EmitOnBreakUnguarded(segmented, current, brk) ==
  IF brk THEN Append(segmented, current) ELSE segmented

\* segmented_text after the break test of one iteration
EmitOnBreak(segmented, current, brk) ==
  IF brk /\ current.surface # <<>> THEN Append(segmented, current) ELSE segmented

\* only the surface is cleared at a break
ResetSurfaceOnly(current, brk) ==
  IF brk THEN [surface |-> <<>>, pronunciation |-> current.pronunciation] ELSE current

\* current_phrase after the break test of one iteration
ResetOnBreak(current, brk) == IF brk THEN EmptyPhrase ELSE current

\* current_phrase after the token has been added to it
Accumulate(current, token) ==
  [surface |-> current.surface \o token.surface_form,
   pronunciation |-> current.pronunciation \o token.pronunciation]

\* the phrase accumulated last is not added
FinalAppendMissing(segmented, current) == segmented

\* segmented_text after the loop: the last phrase is added when there is one
FinalAppend(segmented, current) ==
  IF current.surface # <<>> THEN Append(segmented, current) ELSE segmented

SegStart(p) ==
  /\ pc = p
  /\ text \in SeqsUpTo(Morphemes, MaxTokens)
  /\ tokens = <<>>
  /\ i = 0
  /\ segmented_text = <<>>
  /\ current_phrase = EmptyPhrase
  /\ previous_token = <<>>
  /\ should_break = FALSE

RankIdle ==
  /\ target_word = EmptyPhrase
  /\ distances = <<>>
  /\ sorted_distances = <<>>
  /\ sorted_wordlist = <<>>

FindIdle ==
  /\ phrases = <<>>
  /\ sorted_words = <<>>
  /\ closest_words = <<>>
  /\ error = ""

Init ==
  /\ SegStart("tokenize")
  /\ consider \in BOOLEAN
  /\ RankIdle
  /\ FindIdle
  /\ wordlist = <<>>
  /\ lines = <<>>

\* tokens = self.tokenize(text) and the locals set before the loop
Tokenize ==
  /\ pc = "tokenize"
  /\ tokens' = tokenize(text)
  /\ segmented_text' = <<>>
  /\ current_phrase' = EmptyPhrase
  /\ previous_token' = <<>>
  /\ i' = 0
  /\ pc' = "loop"
  /\ UNCHANGED <<text, consider, should_break, rankVars, findVars, wordlist, lines>>

\* one iteration of  for token in tokens
LoopStep ==
  /\ pc = "loop"
  /\ i < Len(tokens)
  /\ LET token == tokens[i + 1]
         brk == ShouldBreak(token, previous_token, consider)
     IN /\ should_break' = brk
        /\ segmented_text' = EmitOnBreak(segmented_text, current_phrase, brk)
        /\ current_phrase' = Accumulate(ResetOnBreak(current_phrase, brk), token)
        /\ previous_token' = <<token>>
  /\ i' = i + 1
  /\ UNCHANGED <<pc, text, consider, tokens, rankVars, findVars, wordlist, lines>>

\* the loop is over: the last phrase is added and segmented_text returned
ReturnPhrases ==
  /\ pc = "loop"
  /\ i = Len(tokens)
  /\ segmented_text' = FinalAppend(segmented_text, current_phrase)
  /\ pc' = "seg_done"
  /\ UNCHANGED <<text, consider, tokens, i, current_phrase, previous_token, should_break,
                 rankVars, findVars, wordlist, lines>>

Next == Tokenize \/ LoopStep \/ ReturnPhrases

Spec == Init /\ [][Next]_vars

(***************************************************************************)
(* calculate_distance and sort_by_distance                                 *)
(***************************************************************************)
Min(a, b) == IF a <= b THEN a ELSE b

\* editdistance.eval: the unit-cost Levenshtein distance of two strings
EditDistance(s, t) ==
  LET d[a \in 0..Len(s), b \in 0..Len(t)] ==
        IF a = 0 THEN b
        ELSE IF b = 0 THEN a
        ELSE Min(Min(d[a - 1, b] + 1, d[a, b - 1] + 1),
                 d[a - 1, b - 1] + (IF s[a] = t[b] THEN 0 ELSE 1))
  IN d[Len(s), Len(t)]

calculate_distance(dict1, dict2) == EditDistance(dict1.pronunciation, dict2.pronunciation)

\* distances: each word paired with its distance to the target
Distances(target, words) ==
  [k \in 1..Len(words) |-> <<words[k], calculate_distance(target, words[k])>>]

\* the pair goes before the pairs of equal key: equal keys change order
InsertByKeyBeforeEqual(sorted, pair) ==
  LET n == Cardinality({k \in 1..Len(sorted) : sorted[k][2] < pair[2]})
  IN SubSeq(sorted, 1, n) \o <<pair>> \o SubSeq(sorted, n + 1, Len(sorted))

\* a pair put into a list sorted by the second element: after the pairs whose
\* key is not greater, so that equal keys keep their order (sorted is stable)
InsertByKey(sorted, pair) ==
  LET n == Cardinality({k \in 1..Len(sorted) : sorted[k][2] <= pair[2]})
  IN SubSeq(sorted, 1, n) \o <<pair>> \o SubSeq(sorted, n + 1, Len(sorted))

RECURSIVE SortedByKeyDescending(_)
\* the sort with reverse=True: the greatest distance first
SortedByKeyDescending(pairs) ==
  IF pairs = <<>> THEN <<>>
  ELSE LET rest == SortedByKeyDescending(SubSeq(pairs, 1, Len(pairs) - 1))
           pair == pairs[Len(pairs)]
           n == Cardinality({k \in 1..Len(rest) : rest[k][2] >= pair[2]})
       IN SubSeq(rest, 1, n) \o <<pair>> \o SubSeq(rest, n + 1, Len(rest))

RECURSIVE SortedByKey(_)
\* sorted(distances, key=lambda x: x[1])
SortedByKey(pairs) ==
  IF pairs = <<>> THEN <<>>
  ELSE InsertByKey(SortedByKey(SubSeq(pairs, 1, Len(pairs) - 1)), pairs[Len(pairs)])

\* [word for word, distance in sorted_distances]
WordsOf(pairs) == [k \in 1..Len(pairs) |-> pairs[k][1]]

sort_by_distance(target, words) == WordsOf(SortedByKey(Distances(target, words)))

(***************************************************************************)
(* PhraseTokenizer.get_pronunciation and load_wordlist                     *)
(***************************************************************************)
HasPronunciation(token) == token.pronunciation # <<>>

get_pronunciation(line) ==
  LET spoken == SelectSeq(tokenize(line), HasPronunciation)
  IN Concat([k \in 1..Len(spoken) |-> spoken[k].pronunciation])

\* enumerate(lines, 1): ids from one
LineIdFromOne(k) == k

\* the id enumerate gives to the line at (1-based) position k
LineId(k) == k - 1

\* the dictionary load_wordlist appends for the line at position k
WordEntry(k, line) ==
  [id |-> LineId(k), surface |-> RawText(line), pronunciation |-> get_pronunciation(line)]

\* the word list load_wordlist returns for these lines
load_wordlist(ls) == [k \in 1..Len(ls) |-> WordEntry(k, ls[k])]

\* the phrase dictionary of a text that is one phrase
PhraseOf(t) == [surface |-> RawText(t), pronunciation |-> get_pronunciation(t)]

SegIdle ==
  /\ text = <<>>
  /\ consider = DefaultConsider
  /\ tokens = <<>>
  /\ i = 0
  /\ segmented_text = <<>>
  /\ current_phrase = EmptyPhrase
  /\ previous_token = <<>>
  /\ should_break = FALSE

\* sort_by_distance is called with a phrase and a loaded word list
RankInit ==
  /\ pc = "rank_distances"
  /\ \E t \in TargetTexts : target_word = PhraseOf(t)
  /\ \E ls \in SeqsUpTo(LineTexts, MaxRankWords) : wordlist = load_wordlist(ls)
  /\ distances = <<>>
  /\ sorted_distances = <<>>
  /\ sorted_wordlist = <<>>
  /\ SegIdle
  /\ FindIdle
  /\ lines = <<>>

RankDistances ==
  /\ pc = "rank_distances"
  /\ distances' = Distances(target_word, wordlist)
  /\ pc' = "rank_sort"
  /\ UNCHANGED <<target_word, sorted_distances, sorted_wordlist, segVars, findVars,
                 wordlist, lines>>

RankSort ==
  /\ pc = "rank_sort"
  /\ sorted_distances' = SortedByKey(distances)
  /\ pc' = "rank_extract"
  /\ UNCHANGED <<target_word, distances, sorted_wordlist, segVars, findVars,
                 wordlist, lines>>

RankReturn ==
  /\ pc = "rank_extract"
  /\ sorted_wordlist' = WordsOf(sorted_distances)
  /\ pc' = "rank_done"
  /\ UNCHANGED <<target_word, distances, sorted_distances, segVars, findVars,
                 wordlist, lines>>

RankNext == RankDistances \/ RankSort \/ RankReturn

RankSpec == RankInit /\ [][RankNext]_vars

\* load_wordlist has read the lines of the file
LoadInit ==
  /\ pc = "load_loop"
  /\ lines \in SeqsUpTo(LineTexts, MaxLines)
  /\ wordlist = <<>>
  /\ SegIdle
  /\ RankIdle
  /\ FindIdle

\* one iteration of  for id, line in enumerate(lines)
LoadStep ==
  /\ pc = "load_loop"
  /\ Len(wordlist) < Len(lines)
  /\ LET k == Len(wordlist) + 1
     IN wordlist' = Append(wordlist, WordEntry(k, lines[k]))
  /\ UNCHANGED <<pc, lines, segVars, rankVars, findVars>>

LoadReturn ==
  /\ pc = "load_loop"
  /\ Len(wordlist) = Len(lines)
  /\ pc' = "load_done"
  /\ UNCHANGED <<wordlist, lines, segVars, rankVars, findVars>>

LoadNext == LoadStep \/ LoadReturn

LoadSpec == LoadInit /\ [][LoadNext]_vars

(***************************************************************************)
(* find_closest_words                                                      *)
(***************************************************************************)
\* an empty list gives a placeholder word instead of raising
FirstOrDefault(words) ==
  IF words = <<>>
  THEN [raised |-> "", value |-> <<[id |-> 0 - 1, surface |-> <<>>, pronunciation |-> <<>>]>>]
  ELSE [raised |-> "", value |-> <<words[1]>>]

\* sorted_words[-1]: the last word
LastOf(words) ==
  IF words = <<>> THEN [raised |-> "IndexError", value |-> <<>>]
  ELSE [raised |-> "", value |-> <<words[Len(words)]>>]

\* sorted_words[0]: the first word, or the IndexError an empty list raises
FirstOf(words) ==
  IF words = <<>> THEN [raised |-> "IndexError", value |-> <<>>]
  ELSE [raised |-> "", value |-> <<words[1]>>]

FindInit ==
  /\ pc = "find_call"
  /\ text \in SeqsUpTo(FindMorphemes, MaxFindTokens)
  /\ consider = DefaultConsider
  /\ tokens = <<>>
  /\ i = 0
  /\ segmented_text = <<>>
  /\ current_phrase = EmptyPhrase
  /\ previous_token = <<>>
  /\ should_break = FALSE
  /\ \E ls \in SeqsUpTo(LineTexts, MaxWords) : wordlist = load_wordlist(ls)
  /\ RankIdle
  /\ FindIdle
  /\ lines = <<>>

\* tokenizer.split_text_into_phrases(text): the flag takes its default
FindCallSplit ==
  /\ pc = "find_call"
  /\ consider' = DefaultConsider
  /\ pc' = "tokenize"
  /\ UNCHANGED <<text, tokens, i, segmented_text, current_phrase, previous_token,
                 should_break, rankVars, findVars, wordlist, lines>>

\* phrases = the returned list; closest_words = []
FindGotPhrases ==
  /\ pc = "seg_done"
  /\ phrases' = segmented_text
  /\ closest_words' = <<>>
  /\ pc' = "find_loop"
  /\ UNCHANGED <<sorted_words, error, segVars, rankVars, wordlist, lines>>

\* one iteration of  for phrase in phrases: indexing an empty sorted_words
\* raises IndexError, which nothing catches
FindStep ==
  /\ pc = "find_loop"
  /\ Len(closest_words) < Len(phrases)
  /\ LET phrase == phrases[Len(closest_words) + 1]
         sorted == sort_by_distance(phrase, wordlist)
         first == FirstOf(sorted)
     IN /\ sorted_words' = sorted
        /\ IF first.raised # ""
           THEN /\ error' = first.raised
                /\ pc' = "find_raised"
                /\ UNCHANGED closest_words
           ELSE /\ closest_words' =
                     Append(closest_words,
                            [closest_word |-> first.value[1], original_phrase |-> phrase])
                /\ UNCHANGED <<pc, error>>
  /\ UNCHANGED <<phrases, segVars, rankVars, wordlist, lines>>

FindReturn ==
  /\ pc = "find_loop"
  /\ Len(closest_words) = Len(phrases)
  /\ pc' = "find_done"
  /\ UNCHANGED <<findVars, segVars, rankVars, wordlist, lines>>

FindNext ==
  \/ FindCallSplit
  \/ Tokenize
  \/ LoopStep
  \/ ReturnPhrases
  \/ FindGotPhrases
  \/ FindStep
  \/ FindReturn

FindSpec == FindInit /\ [][FindNext]_vars

(***************************************************************************)
(* Properties of the segmenter, checked under Spec.                        *)
(***************************************************************************)
\* the surfaces of the first n tokens, concatenated
TokenSurfaces(n) == Concat([k \in 1..n |-> tokens[k].surface_form])
\* the pronunciations of tokens a..b, concatenated
TokenPronunciations(a, b) == Concat([k \in 1..(b - a + 1) |-> tokens[a + k - 1].pronunciation])
\* the surfaces of the first n emitted phrases, concatenated
PhraseSurfaces(n) == Concat([k \in 1..n |-> segmented_text[k].surface])
\* the pronunciations of all emitted phrases, concatenated
PhrasePronunciations ==
  Concat([k \in 1..Len(segmented_text) |-> segmented_text[k].pronunciation])

BoundarySet ==
  {Meishi, Doushi, Settoushi, Fukushi, Kandoushi, Keiyoushi, Keiyoudoushi, Rentaishi}
Details(t) == t.pos_detail_1 \o <<COMMA>> \o t.pos_detail_2 \o <<COMMA>> \o t.pos_detail_3

\* the loop has consumed at least one token: should_break is that of token i
Consumed == pc \in {"loop", "seg_done"} /\ i >= 1

\* C1: the surfaces of the emitted phrases, in order, followed while the loop
\* runs by the surface being accumulated, are the surfaces of the consumed
\* tokens in input order; the returned phrases' surfaces concatenate to the
\* concatenation of all tokens' surfaces.
SurfacePreservation ==
  /\ pc = "loop" =>
       PhraseSurfaces(Len(segmented_text)) \o current_phrase.surface = TokenSurfaces(i)
  /\ pc = "seg_done" =>
       PhraseSurfaces(Len(segmented_text)) = TokenSurfaces(Len(tokens))

SurfacePreservationWitness ==
  /\ pc = "seg_done"
  /\ Len(tokens) = 3
  /\ Len(segmented_text) = 2
  /\ PhraseSurfaces(2) = RawText(text)

\* the break condition with every narrowing rule applied, for token k
NarrowedBreak(k) ==
  LET t == tokens[k]
  IN /\ t.pos \in BoundarySet
     /\ ~Contains(Setsubi, Details(t))
     /\ ~Contains(Hijiritsu, Details(t))
     /\ ~(t.pos = Doushi /\ Contains(SahenSetsuzoku, Details(t)))
     /\ k > 1 =>
          /\ tokens[k - 1].pos # Settoushi
          /\ ~(/\ Contains(SahenSetsuzoku, Details(tokens[k - 1]))
               /\ t.pos = Doushi
               /\ t.conjugated_type = SahenSuru)

\* C2 as stated: with the flag true, a token starts a new phrase exactly when
\* the narrowed break condition holds for it.
FlagTrueNarrows == (Consumed /\ consider) => (should_break <=> NarrowedBreak(i))

\* C2 amended: with the flag true (the default), a token starts a new phrase
\* exactly when its pos is in the boundary set; the narrowing rules apply
\* exactly when the flag is false.
FlagFalseNarrows ==
  Consumed =>
    /\ consider => (should_break <=> tokens[i].pos \in BoundarySet)
    /\ ~consider => (should_break <=> NarrowedBreak(i))

\* with the flag true a suffix noun after another token starts a phrase
FlagFalseNarrowsWitness ==
  /\ Consumed
  /\ consider
  /\ i = 2
  /\ Contains(Setsubi, Details(tokens[2]))
  /\ should_break
  /\ ~NarrowedBreak(2)

\* C3: at every point of the pass and in the result, every phrase of
\* segmented_text has a non-empty surface.
NoEmptyPhrases ==
  \A k \in 1..Len(segmented_text) : segmented_text[k].surface # <<>>

\* the first token is a boundary token (a break with nothing accumulated)
NoEmptyPhrasesWitness ==
  /\ pc = "seg_done"
  /\ Len(tokens) = 2
  /\ tokens[1].pos \in BoundarySet
  /\ tokens[2].pos \in BoundarySet
  /\ Len(segmented_text) = 2

\* the token at which the phrase after the first n emitted phrases begins
BeginsAtBoundary(n) ==
  \E j \in 1..i : /\ TokenSurfaces(j - 1) = PhraseSurfaces(n)
                  /\ tokens[j].pos \in BoundarySet

\* C8: a token whose pos is not in the boundary set is added to the phrase
\* being accumulated and emits nothing, whatever the flag; every phrase but the
\* first begins with a boundary token; a boundary token followed only by
\* non-boundary tokens gives one phrase, the concatenation over all of them.
NonBoundaryNeverStarts ==
  /\ [][(LoopStep /\ tokens[i + 1].pos \notin BoundarySet) =>
          /\ segmented_text' = segmented_text
          /\ current_phrase'.surface =
               current_phrase.surface \o tokens[i + 1].surface_form
          /\ current_phrase'.pronunciation =
               current_phrase.pronunciation \o tokens[i + 1].pronunciation]_vars
  /\ [](pc \in {"loop", "seg_done"} =>
          /\ \A k \in 2..Len(segmented_text) : BeginsAtBoundary(k - 1)
          /\ (pc = "loop" /\ segmented_text # <<>>) =>
               BeginsAtBoundary(Len(segmented_text)))
  /\ []((/\ pc = "seg_done"
         /\ tokens # <<>>
         /\ tokens[1].pos \in BoundarySet
         /\ \A k \in 2..Len(tokens) : tokens[k].pos \notin BoundarySet) =>
          segmented_text = <<[surface |-> TokenSurfaces(Len(tokens)),
                              pronunciation |-> TokenPronunciations(1, Len(tokens))]>>)

\* the adjective hiroi, then a particle: one phrase
NonBoundaryNeverStartsWitness ==
  /\ pc = "seg_done"
  /\ consider
  /\ Len(tokens) = 2
  /\ tokens[1].pos = Keiyoushi
  /\ tokens[2].pos = Joshi
  /\ segmented_text = <<[surface |-> <<"Khiro", "Hi", "Hha">>,
                         pronunciation |-> <<"hi", "ro", "i", "wa">>]>>

\* tokens a+1..b are the tokens of emitted phrase k
TokensOfPhrase(k, a, b) ==
  /\ TokenSurfaces(a) = PhraseSurfaces(k - 1)
  /\ TokenSurfaces(b) = PhraseSurfaces(k)

\* C10: each emitted phrase's pronunciation is the concatenation, in order, of
\* the pronunciations of the tokens whose surfaces make up its surface; the
\* pronunciations of the emitted phrases (and, while the loop runs, of the
\* phrase being accumulated) concatenate to those of the consumed tokens.
PronunciationPreservation ==
  pc \in {"loop", "seg_done"} =>
    /\ \A k \in 1..Len(segmented_text) :
         \E a \in 0..i : \E b \in (a + 1)..i :
           /\ TokensOfPhrase(k, a, b)
           /\ segmented_text[k].pronunciation = TokenPronunciations(a + 1, b)
    /\ pc = "loop" =>
         PhrasePronunciations \o current_phrase.pronunciation = TokenPronunciations(1, i)
    /\ pc = "seg_done" => PhrasePronunciations = TokenPronunciations(1, Len(tokens))

\* a break after a phrase that holds a silent token
PronunciationPreservationWitness ==
  /\ pc = "seg_done"
  /\ Len(tokens) = 3
  /\ Len(segmented_text) = 2
  /\ tokens[2].pronunciation = <<>>
  /\ tokens[1].pronunciation # <<>>
  /\ segmented_text[1].pronunciation = tokens[1].pronunciation
  /\ segmented_text[1].surface = tokens[1].surface_form \o tokens[2].surface_form

(***************************************************************************)
(* Properties of the ranking, checked under RankSpec.                      *)
(***************************************************************************)
\* the distance of a word to the target of the ranking
TargetDistance(word) == EditDistance(target_word.pronunciation, word.pronunciation)

\* how many times e occurs in the list
Count(list, e) == Cardinality({k \in 1..Len(list) : list[k] = e})

\* C4: the returned list is a permutation of the word list (every entry as
\* many times as in the input) and the distance to the target's pronunciation
\* never decreases along it.
RankingMonotonicity ==
  pc = "rank_done" =>
    /\ Len(sorted_wordlist) = Len(wordlist)
    /\ \A k \in 1..Len(wordlist) :
         Count(sorted_wordlist, wordlist[k]) = Count(wordlist, wordlist[k])
    /\ \A k \in 1..(Len(sorted_wordlist) - 1) :
         TargetDistance(sorted_wordlist[k]) <= TargetDistance(sorted_wordlist[k + 1])

\* three words at three distances, returned in another order than given
RankingMonotonicityWitness ==
  /\ pc = "rank_done"
  /\ Len(wordlist) = 3
  /\ sorted_wordlist # wordlist
  /\ TargetDistance(sorted_wordlist[1]) < TargetDistance(sorted_wordlist[2])
  /\ TargetDistance(sorted_wordlist[2]) < TargetDistance(sorted_wordlist[3])

\* the position in the input word list of the entry at position k of the result
InputPosition(k) == CHOOSE j \in 1..Len(wordlist) : wordlist[j] = sorted_wordlist[k]

\* C5: two words at the same distance come out in the order they had in the
\* input word list (for a loaded list: by ascending id).
StableTieBreak ==
  pc = "rank_done" =>
    \A a \in 1..Len(sorted_wordlist) : \A b \in (a + 1)..Len(sorted_wordlist) :
      TargetDistance(sorted_wordlist[a]) = TargetDistance(sorted_wordlist[b]) =>
        /\ InputPosition(a) < InputPosition(b)
        /\ sorted_wordlist[a].id < sorted_wordlist[b].id

\* a tie between two entries that follow, in the input, an entry further away
StableTieBreakWitness ==
  /\ pc = "rank_done"
  /\ Len(wordlist) = 3
  /\ TargetDistance(wordlist[2]) = TargetDistance(wordlist[3])
  /\ TargetDistance(wordlist[1]) > TargetDistance(wordlist[2])
  /\ wordlist[2].pronunciation = wordlist[3].pronunciation
  /\ sorted_wordlist = <<wordlist[2], wordlist[3], wordlist[1]>>

(***************************************************************************)
(* Properties of find_closest_words, checked under FindSpec.               *)
(***************************************************************************)
\* C6 as stated: with an empty word list the ranking returns the empty list
\* and the selection of the closest word fails with EmptyCandidateSet.
EmptyListRaisesEmptyCandidateSet ==
  (wordlist = <<>> /\ pc = "find_raised") =>
    (sorted_words = <<>> /\ error = "EmptyCandidateSet")

\* C6 amended: with an empty word list the ranking returns the empty list
\* without an error and the selection of the closest word for the first phrase
\* fails with Python's IndexError (the code has no error of its own), no pair
\* having been returned; a text without phrases returns the empty list.
EmptyListRaisesIndexError ==
  wordlist = <<>> =>
    /\ closest_words = <<>>
    /\ pc = "find_raised" => (sorted_words = <<>> /\ error = "IndexError" /\ phrases # <<>>)
    /\ pc # "find_raised" => error = ""
    /\ pc = "find_done" => phrases = <<>>
    /\ (pc = "find_loop" /\ phrases # <<>>) => ~ENABLED FindReturn

EmptyListRaisesIndexErrorWitness ==
  /\ wordlist = <<>>
  /\ pc = "find_raised"
  /\ Len(phrases) = 2
  /\ sorted_words = <<>>
  /\ error = "IndexError"

\* the distance of the word at position j of the word list to a phrase
WordDistance(phrase, j) == EditDistance(phrase.pronunciation, wordlist[j].pronunciation)

\* the word list's entry j is the closest to the phrase, the earliest such
EarliestClosest(phrase, j) ==
  \A m \in 1..Len(wordlist) :
    /\ WordDistance(phrase, j) <= WordDistance(phrase, m)
    /\ WordDistance(phrase, m) = WordDistance(phrase, j) => j <= m

\* C7: with a non-empty word list find_closest_words never fails and returns
\* one pair per phrase of the segmentation, in phrase order; the word of each
\* pair is at the least distance from the phrase's pronunciation and is the
\* earliest entry of the word list at that distance, whatever the other phrases.
EndToEndMatching ==
  (wordlist # <<>> /\ pc \in {"find_loop", "find_done"}) =>
    /\ error = ""
    /\ phrases = segmented_text
    /\ Len(closest_words) <= Len(segmented_text)
    /\ pc = "find_done" => Len(closest_words) = Len(segmented_text)
    /\ \A k \in 1..Len(closest_words) :
         /\ closest_words[k].original_phrase = segmented_text[k]
         /\ \E j \in 1..Len(wordlist) :
              /\ closest_words[k].closest_word = wordlist[j]
              /\ EarliestClosest(segmented_text[k], j)

\* two phrases with different closest words, the first phrase's not the first entry
EndToEndMatchingWitness ==
  /\ pc = "find_done"
  /\ Len(wordlist) = 2
  /\ Len(closest_words) = 2
  /\ closest_words[1].closest_word = wordlist[2]
  /\ closest_words[2].closest_word = wordlist[1]

(***************************************************************************)
(* Properties of load_wordlist, checked under LoadSpec.                    *)
(***************************************************************************)
\* the pronunciations of all tokens of a line, concatenated
LinePronunciation(line) ==
  Concat([k \in 1..Len(tokenize(line)) |-> tokenize(line)[k].pronunciation])

\* C9: the entry at (0-based) position n has id n, the raw line as surface and
\* the concatenated pronunciations of the line's tokens as pronunciation; the
\* loaded list has one entry per line, duplicates included.
ReferenceIndexIds ==
  /\ Len(wordlist) <= Len(lines)
  /\ pc = "load_done" => Len(wordlist) = Len(lines)
  /\ \A k \in 1..Len(wordlist) :
       /\ wordlist[k].id = k - 1
       /\ wordlist[k].surface = RawText(lines[k])
       /\ wordlist[k].pronunciation = LinePronunciation(lines[k])

\* a duplicated line, then a line whose first token is silent
ReferenceIndexIdsWitness ==
  /\ pc = "load_done"
  /\ Len(lines) = 3
  /\ lines[1] = lines[2]
  /\ lines[3] = <<MUnknown, MSora>>
  /\ wordlist[1].id = 0
  /\ wordlist[2].id = 1
  /\ wordlist[3] = [id |-> 2, surface |-> <<"X", "Ksora">>, pronunciation |-> <<"so", "ra">>]
=============================================================================
